---------------------------- MODULE Spec2Model ----------------------------
(***************************************************************************)
(* A model of sqlalchemy_celery_beat: the database-backed beat scheduler   *)
(* (scheduler.py), the schedule-row store (models/celery_tasks_schedule.py *)
(* and models/celery_tasks.py) and the change clock                        *)
(* (models/celery_tasks_schedule_meta.py).                                 *)
(*                                                                         *)
(* Text (a Python str) is a sequence of one-character strings, so that     *)
(* split, strip, join and re.sub are computed, not assumed.  Time is a     *)
(* number of seconds; the wall clock only moves forward.                   *)
(***************************************************************************)
EXTENDS Integers, Sequences, FiniteSets, TLC

VARIABLES
    now,            \* the wall clock, dt.datetime.now(tz=dt.UTC), in seconds
    clock,          \* celery_tasks_schedule_meta.last_updated_at (row id 1)
    rows,           \* committed rows of celery_tasks_schedule
    catalog,        \* committed rows of celery_tasks
    txn,            \* the open ORM unit of work of the admin writer, or NoTxn
    max_interval,   \* DatabaseScheduler.max_interval
    last,           \* DatabaseScheduler._last_updated_at, or None
    cache,          \* DatabaseScheduler._schedule
    pc,             \* where the dispatch loop stands inside `schedule`
    enabled_tasks,  \* the local of _update_schedule between read and publish
    decision,       \* history: what the last _need_update call decided
    stale_seen,     \* history: a reason to refresh held at that call
    dirty,          \* history: a commit happened since the last row read
    lastOp,         \* history: outcome of the last store call
    writes,         \* history: number of store calls made so far
    retries,        \* the local `retries` of _prepare_models
    attempts,       \* history: calls of create_all made by _prepare_models
    deprecated_tasks, \* the local of _clean_deprecated between read and delete
    call            \* one application of get_task_key: its inputs and result

vars == <<now, clock, rows, catalog, txn, max_interval, last, cache, pc,
          enabled_tasks, decision, stale_seen, dirty, lastOp, writes,
          retries, attempts, deprecated_tasks, call>>

\* _last_updated_at = None: no refresh yet (times are >= 0)
None == -1

\* no unit of work is open
NoTxn == [op |-> "none", del |-> {}, add |-> {}]

-----------------------------------------------------------------------------
(* Text helpers: Python str operations on sequences of characters.         *)

RECURSIVE Join(_, _)
\* sep.join(parts)
Join(sep, parts) ==
    IF parts = <<>> THEN <<>>
    ELSE IF Len(parts) = 1 THEN parts[1]
    ELSE parts[1] \o sep \o Join(sep, Tail(parts))

RECURSIVE LStrip(_, _)
LStrip(s, ch) ==
    IF s # <<>> /\ s[1] = ch THEN LStrip(Tail(s), ch) ELSE s

RECURSIVE RStrip(_, _)
RStrip(s, ch) ==
    IF s # <<>> /\ s[Len(s)] = ch THEN RStrip(SubSeq(s, 1, Len(s) - 1), ch) ELSE s

\* s.strip(ch)
Strip(s, ch) == RStrip(LStrip(s, ch), ch)

\* the character class of re.sub(r"[\[\](){}, '\"]", "", ...)
KeyForbidden == {"[", "]", "(", ")", "{", "}", ",", " ", "'", "\""}

\* re.sub(<class>, "", s)
ReSubKey(s) == SelectSeq(s, LAMBDA c : c \notin KeyForbidden)

\* str.split(): the maximal runs of non-blank characters, in order
Split(s) ==
    LET starts == {i \in 1..Len(s) : s[i] # " " /\ (i = 1 \/ s[i - 1] = " ")}
        ends   == {j \in 1..Len(s) : s[j] # " " /\ (j = Len(s) \/ s[j + 1] = " ")}
        nth(S, n) == CHOOSE i \in S : Cardinality({j \in S : j < i}) = n - 1
    IN  [n \in 1..Cardinality(starts) |-> SubSeq(s, nth(starts, n), nth(ends, n))]

Digits == <<"0", "1", "2", "3", "4", "5", "6", "7", "8", "9">>

DigitValue(c) == (CHOOSE i \in 1..10 : Digits[i] = c) - 1

IsDigit(c) == \E i \in 1..10 : Digits[i] = c

RECURSIVE NatStr(_)
\* str(n) of a natural number
NatStr(n) == IF n < 10 THEN <<Digits[n + 1]>> ELSE NatStr(n \div 10) \o <<Digits[(n % 10) + 1]>>

RECURSIVE StrNat(_)
\* int(s) of a string of digits
StrNat(s) == IF Len(s) = 1 THEN DigitValue(s[1])
             ELSE 10 * StrNat(SubSeq(s, 1, Len(s) - 1)) + DigitValue(s[Len(s)])

-----------------------------------------------------------------------------
(* JSON values.  A value is <<"int", n>>, <<"str", text>> or               *)
(* <<"bool", b>>; args is a sequence of values, kwargs a sequence of       *)
(* <<name, value>> pairs in the mapping's order.                           *)

\* str(v), as map(str, args), f"{k}-{v}" and f"{schedule._orig_hour} " apply
\* it; a list of integers prints as "[1, 2]"
PyStr(v) ==
    CASE v[1] = "int"  -> NatStr(v[2])
      [] v[1] = "str"  -> v[2]
      [] v[1] = "bool" -> IF v[2] THEN <<"T", "r", "u", "e">> ELSE <<"F", "a", "l", "s", "e">>
      [] v[1] = "list" -> <<"[">> \o Join(<<",", " ">>, [i \in 1..Len(v[2]) |-> NatStr(v[2][i])])
                                 \o <<"]">>

\* json.dumps of one scalar
DumpValue(v) ==
    CASE v[1] = "int"  -> NatStr(v[2])
      [] v[1] = "str"  -> <<"\"">> \o v[2] \o <<"\"">>
      [] v[1] = "bool" -> IF v[2] THEN <<"t", "r", "u", "e">> ELSE <<"f", "a", "l", "s", "e">>

\* json.dumps(args) of a list
DumpArgs(args) ==
    <<"[">> \o Join(<<",", " ">>, [i \in 1..Len(args) |-> DumpValue(args[i])]) \o <<"]">>

\* json.dumps(kwargs) of a dict
DumpKwargs(kwargs) ==
    <<"{">> \o Join(<<",", " ">>,
                    [i \in 1..Len(kwargs) |->
                        <<"\"">> \o kwargs[i][1] \o <<"\"", ":", " ">> \o DumpValue(kwargs[i][2])])
          \o <<"}">>

\* a variant of get_task_key without .strip("-")
get_task_key_unstripped(name, args, kwargs) ==
    LET a == Join(<<"-">>, [i \in 1..Len(args) |-> PyStr(args[i])])
        k == Join(<<"-">>, [i \in 1..Len(kwargs) |-> kwargs[i][1] \o <<"-">> \o PyStr(kwargs[i][2])])
    IN  ReSubKey(name \o <<"-">> \o a \o <<"-">> \o k)

\* get_task_key(name, args, kwargs)
get_task_key(name, args, kwargs) ==
    LET a == Join(<<"-">>, [i \in 1..Len(args) |-> PyStr(args[i])])
        k == Join(<<"-">>, [i \in 1..Len(kwargs) |-> kwargs[i][1] \o <<"-">> \o PyStr(kwargs[i][2])])
    IN  ReSubKey(Strip(name \o <<"-">> \o a \o <<"-">> \o k, "-"))

-----------------------------------------------------------------------------
(* The texts and values the model draws its inputs from.                   *)

T1 == <<"t", "1">>
T2 == <<"t", "2">>
Gone == <<"o", "l", "d">>

\* celery_app.tasks: the live task registry
Tasks == {T1, T2}

\* every task name a catalog or schedule row may carry
TaskNames == Tasks \cup {Gone}

IntV(n) == <<"int", n>>

\* positional argument lists json.loads can produce
ArgsUniverse == {<<>>, <<IntV(1)>>, <<IntV(1), IntV(2)>>}

\* keyword argument mappings json.loads can produce
KwargsUniverse == {<<>>, << <<<<"n">>, IntV(1)>> >>}

\* a text json.loads rejects
BadJson == <<"[", "1">>

StarCron == <<"*", " ", "*", " ", "*", " ", "*", " ", "*">>
FiveCron == <<"5", " ", "4", " ", "*", " ", "*", " ", "1">>
\* four fields only
ShortCron == <<"*", " ", "*", " ", "*", " ", "*">>
\* five fields, minute out of range
BadCron == <<"6", "1", " ", "*", " ", "*", " ", "*", " ", "*">>

-----------------------------------------------------------------------------
(* json.loads and crontab(), as _model_to_entry and before_validator use   *)
(* them.  A parse result is [ok |-> BOOLEAN, value |-> ...].               *)

Raised == [ok |-> FALSE, value |-> <<>>]

Ok(v) == [ok |-> TRUE, value |-> v]

\* the JSON documents of the model, each with its text
JsonDocuments ==
    {<<DumpArgs(a), a>> : a \in ArgsUniverse} \cup {<<DumpKwargs(k), k>> : k \in KwargsUniverse}

\* json.loads(text): the document whose JSON text this is, else JSONDecodeError
JsonLoads(text) ==
    IF \E d \in JsonDocuments : d[1] = text
    THEN Ok((CHOOSE d \in JsonDocuments : d[1] = text)[2])
    ELSE Raised

\* one crontab field: "*" or a number within [lo, hi]
CronFieldOk(tok, lo, hi) ==
    \/ tok = <<"*">>
    \/ /\ tok # <<>>
       /\ \A i \in 1..Len(tok) : IsDigit(tok[i])
       /\ StrNat(tok) >= lo
       /\ StrNat(tok) <= hi

\* crontab(minute, hour, day_of_week, day_of_month, month_of_year)
crontab(minute, hour, day_of_week, day_of_month, month_of_year) ==
    IF /\ CronFieldOk(minute, 0, 59)
       /\ CronFieldOk(hour, 0, 23)
       /\ CronFieldOk(day_of_week, 0, 6)
       /\ CronFieldOk(day_of_month, 1, 31)
       /\ CronFieldOk(month_of_year, 1, 12)
    THEN Ok([minute |-> minute, hour |-> hour, day_of_week |-> day_of_week,
             day_of_month |-> day_of_month, month_of_year |-> month_of_year])
    ELSE Raised

\* minute, hour, day_of_month, month_of_year, day_of_week = schedule.split()
\* followed by crontab(...): the unpacking raises unless there are five parts
ParseSchedule(schedule) ==
    LET parsed == {crontab(p[1], p[2], p[5], p[3], p[4]) :
                      p \in {q \in {Split(schedule)} : Len(q) = 5}}
    IN  IF parsed = {} THEN Raised ELSE CHOOSE c \in parsed : TRUE

\* DatabaseScheduler._model_to_entry
ModelToEntry(model) ==
    LET args == JsonLoads(model.args)
        kwargs == JsonLoads(model.kwargs)
        schedule == ParseSchedule(model.schedule)
    IN  IF ~args.ok \/ ~kwargs.ok \/ ~schedule.ok THEN Raised
        ELSE Ok([args |-> args.value, kwargs |-> kwargs.value,
                 schedule |-> schedule.value, task |-> model.task])

\* a variant of select_enabled_entries without its `where enabled`
SelectEveryEntry(store) == store

\* CeleryTasksScheduleModel.select_enabled_entries
SelectEnabledEntries(store) == {r \in store : r.enabled}

\* _get_enabled_tasks without its try/except: the first row that raises ends
\* the load with no entries
GetEnabledTasksUnguarded(store) ==
    IF \A r \in SelectEnabledEntries(store) : ModelToEntry(r).ok
    THEN [k \in {r.task_key : r \in SelectEnabledEntries(store)} |->
            ModelToEntry(CHOOSE r \in SelectEnabledEntries(store) : r.task_key = k).value]
    ELSE [k \in {} |-> Raised]

\* DatabaseScheduler._get_enabled_tasks: rows that raise are logged and skipped
GetEnabledTasks(store) ==
    LET entries(converted) ==
            [k \in {c[1] : c \in {d \in converted : d[2].ok}} |->
                (CHOOSE c \in converted : c[1] = k)[2].value]
    IN  CHOOSE e \in {entries(converted) :
                        converted \in {{<<r.task_key, ModelToEntry(r)>> :
                                           r \in SelectEnabledEntries(store)}}} : TRUE

-----------------------------------------------------------------------------
(* The store: constraints of the tables and the calls that write them.     *)
(* A store call returns [raised, rows, inserted]: an exception leaves the  *)
(* `with session.begin()` block, which rolls the transaction back.         *)

KeysOf(store) == {r.task_key : r \in store}

\* CeleryTasksModel.select_all_tasks
CatalogTasks(cat) == {c.task : c \in cat}

SeqToSet(s) == {s[i] : i \in 1..Len(s)}

\* task_key is unique: no two of the rows the statement adds share a key
UniqueKeys(params) ==
    \A i, j \in 1..Len(params) : i # j => params[i].task_key # params[j].task_key

\* task references celery_tasks.task
ForeignKeyOk(cat, params) ==
    \A i \in 1..Len(params) : params[i].task \in CatalogTasks(cat)

\* a variant of bulk_insert that writes every entry of the batch, replacing
\* the stored row of the same key (INSERT ... ON CONFLICT DO UPDATE)
ScheduleBulkUpsert(store, cat, data) ==
    LET keys == {data[i].task_key : i \in 1..Len(data)}
    IN  IF ~UniqueKeys(data) \/ ~ForeignKeyOk(cat, data)
        THEN [raised |-> TRUE, rows |-> store, inserted |-> 0]
        ELSE [raised |-> FALSE,
              rows |-> {r \in store : r.task_key \notin keys} \cup SeqToSet(data),
              inserted |-> Cardinality(keys \ KeysOf(store))]

RECURSIVE InsertEach(_, _, _)
\* the rows of a batch inserted one statement at a time, up to the first that
\* violates a constraint
InsertEach(store, cat, params) ==
    IF params = <<>> THEN [raised |-> FALSE, rows |-> store]
    ELSE IF \/ Head(params).task_key \in KeysOf(store)
            \/ Head(params).task \notin CatalogTasks(cat)
         THEN [raised |-> TRUE, rows |-> store]
         ELSE InsertEach(store \cup {Head(params)}, cat, Tail(params))

\* a variant of bulk_insert without `session.begin()`: every row is committed
\* by itself, so the rows before the failing one stay
ScheduleBulkInsertAutocommit(store, cat, data) ==
    LET missing_entries == {data[i].task_key : i \in 1..Len(data)} \ KeysOf(store)
        res == InsertEach(store, cat, SelectSeq(data, LAMBDA d : d.task_key \in missing_entries))
    IN  [raised |-> res.raised, rows |-> res.rows,
         inserted |-> Cardinality(res.rows \ store)]

\* CeleryTasksScheduleModel.bulk_insert(data)
ScheduleBulkInsert(store, cat, data) ==
    LET existing_entries == KeysOf(store)
        entries_to_insert == {data[i].task_key : i \in 1..Len(data)}
        missing_entries == entries_to_insert \ existing_entries
        params == SelectSeq(data, LAMBDA d : d.task_key \in missing_entries)
    IN  IF missing_entries = {}
        THEN [raised |-> FALSE, rows |-> store, inserted |-> 0]
        ELSE IF ~UniqueKeys(params) \/ ~ForeignKeyOk(cat, params)
             THEN [raised |-> TRUE, rows |-> store, inserted |-> 0]
             ELSE [raised |-> FALSE, rows |-> store \cup SeqToSet(params),
                   inserted |-> Len(params)]

\* CeleryTasksScheduleModel.delete(tasks)
ScheduleDelete(store, tasks) == {r \in store : r.task \notin tasks}

\* CeleryTasksModel.delete(tasks)
TasksDelete(cat, tasks) == {c \in cat : c.task \notin tasks}

\* task is the primary key: no two of the rows the statement adds share it
UniqueTasks(params) ==
    \A i, j \in 1..Len(params) : i # j => params[i].task # params[j].task

\* CeleryTasksModel.bulk_insert(data)
TasksBulkInsert(cat, data) ==
    LET existing_tasks == CatalogTasks(cat)
        tasks_to_insert == {data[i].task : i \in 1..Len(data)}
        missing_tasks == tasks_to_insert \ existing_tasks
        params == SelectSeq(data, LAMBDA d : d.task \in missing_tasks)
    IN  IF missing_tasks = {}
        THEN [raised |-> FALSE, catalog |-> cat, inserted |-> 0]
        ELSE IF ~UniqueTasks(params)
             THEN [raised |-> TRUE, catalog |-> cat, inserted |-> 0]
             ELSE [raised |-> FALSE, catalog |-> cat \cup SeqToSet(params),
                   inserted |-> Len(params)]

\* one parameter set of bulk_update's UPDATE: the row of that task, when its
\* params or description differ, takes both from the entry
UpdateOne(cat, d) ==
    {IF c.task = d.task /\ (c.params # d.params \/ c.description # d.description)
     THEN [c EXCEPT !.params = d.params, !.description = d.description]
     ELSE c : c \in cat}

\* a variant of bulk_update whose SET clause includes tags
\* (get_bindparams() without exclude)
TasksBulkUpdateWithTags(cat, data) ==
    {IF \E i \in 1..Len(data) :
            /\ data[i].task = c.task
            /\ (c.params # data[i].params \/ c.description # data[i].description)
     THEN CHOOSE d \in SeqToSet(data) : d.task = c.task
     ELSE c : c \in cat}

RECURSIVE TasksBulkUpdate(_, _)
\* CeleryTasksModel.bulk_update(data): the UPDATE runs once per entry, in order
TasksBulkUpdate(cat, data) ==
    IF data = <<>> THEN cat
    ELSE TasksBulkUpdate(UpdateOne(cat, Head(data)), Tail(data))


\* a variant of the delete on a database that does not enforce the foreign
\* key's ON DELETE CASCADE: the schedule rows stay
NoCascade(store, tasks) == store

\* ON DELETE CASCADE of celery_tasks_schedule.task
Cascade(store, tasks) == {r \in store : r.task \notin tasks}

\* task.__header__(*args, **kwargs): every registered task is declared as
\* def task(n=0), so at most one value may bind n
CheckArguments(args, kwargs) ==
    /\ Len(args) + Len(kwargs) <= 1
    /\ \A i \in 1..Len(kwargs) : kwargs[i][1] = <<"n">>

\* a variant of before_validator without its last statement: task_key is
\* left as the caller set it
before_validator_keeping_key(target) ==
    LET args == JsonLoads(target.args)
        kwargs == JsonLoads(target.kwargs)
    IN  IF target.task \notin Tasks THEN Raised
        ELSE IF ~args.ok THEN Raised
        ELSE IF ~kwargs.ok THEN Raised
        ELSE IF ~CheckArguments(args.value, kwargs.value) THEN Raised
        ELSE IF ~ParseSchedule(target.schedule).ok THEN Raised
        ELSE Ok(target)

\* before_validator(mapper, connection, target): raises, or sets target.task_key
before_validator(target) ==
    LET args == JsonLoads(target.args)
        kwargs == JsonLoads(target.kwargs)
    IN  IF target.task \notin Tasks THEN Raised
        ELSE IF ~args.ok THEN Raised
        ELSE IF ~kwargs.ok THEN Raised
        ELSE IF ~CheckArguments(args.value, kwargs.value) THEN Raised
        ELSE IF ~ParseSchedule(target.schedule).ok THEN Raised
        ELSE Ok([target EXCEPT !.task_key = get_task_key(target.task, args.value, kwargs.value)])

\* CeleryTasksScheduleMetaModel.update_last_updated_at, in a session of its own
update_last_updated_at(t) == t

-----------------------------------------------------------------------------
(* The scheduler: DatabaseScheduler.                                       *)

DEFAULT_MAX_LOOP_INTERVAL == 5

MAX_SYNC_SCHEDULE_INTERVAL == 5

Second(t) == t % 60

\* a quiet window that also swallows second 50
QuietWindowFrom50(t, mi) == mi < 30 /\ (Second(t) < 20 \/ Second(t) >= 50)

\* the test of _need_update that returns False near a minute boundary
QuietWindow(t, mi) == mi < 30 /\ (Second(t) < 20 \/ Second(t) > 50)

\* the condition of _need_update's last `if`
OutOfSync(t, lst, clk) ==
    \/ lst = None
    \/ lst < t - MAX_SYNC_SCHEDULE_INTERVAL * 60
    \/ lst < clk

\* _need_update comparing the change clock with <= instead of <
NeedUpdateOnEqualClock(t, mi, lst, clk) ==
    LET sync_threshold == t - MAX_SYNC_SCHEDULE_INTERVAL * 60
    IN  IF QuietWindow(t, mi) THEN "suppressed"
        ELSE IF lst = None THEN "never"
        ELSE IF lst < sync_threshold THEN "forced"
        ELSE IF lst <= clk THEN "changed"
        ELSE "fresh"

\* _need_update without the comparison with sync_threshold
NeedUpdateWithoutForcedSync(t, mi, lst, clk) ==
    IF QuietWindow(t, mi) THEN "suppressed"
    ELSE IF lst = None THEN "never"
    ELSE IF lst < clk THEN "changed"
    ELSE "fresh"

\* DatabaseScheduler._need_update, with the disjunct that decided it
NeedUpdate(t, mi, lst, clk) ==
    LET sync_threshold == t - MAX_SYNC_SCHEDULE_INTERVAL * 60
    IN  IF QuietWindow(t, mi) THEN "suppressed"
        ELSE IF lst = None THEN "never"
        ELSE IF lst < sync_threshold THEN "forced"
        ELSE IF lst < clk THEN "changed"
        ELSE "fresh"

Refreshing == {"never", "forced", "changed"}

DefaultKey == <<"c", "e", "l", "e", "r", "y", ".", "b", "a", "c", "k", "e", "n", "d",
                "_", "c", "l", "e", "a", "n", "u", "p">>

\* the entry Scheduler.install_default_entries builds: crontab('0', '4', '*')
DefaultEntry ==
    [args |-> <<>>, kwargs |-> <<>>,
     schedule |-> crontab(<<"0">>, <<"4">>, <<"*">>, <<"*">>, <<"*">>).value,
     task |-> DefaultKey]

\* a variant of install_default_entries without its `not in data` test:
\* update_from_dict's dict.update then replaces the loaded entry
InstallDefaultEntriesOverwriting(data) ==
    [k \in DOMAIN data \cup {DefaultKey} |->
        IF k = DefaultKey THEN DefaultEntry ELSE data[k]]

\* self.install_default_entries(self._schedule), through update_from_dict
InstallDefaultEntries(data) ==
    IF DefaultKey \in DOMAIN data THEN data
    ELSE [k \in DOMAIN data \cup {DefaultKey} |->
            IF k = DefaultKey THEN DefaultEntry ELSE data[k]]

EmptyMap == [k \in {} |-> DefaultEntry]

-----------------------------------------------------------------------------
(* Bounds and inputs.                                                      *)

\* store calls (ORM units of work, bulk calls, deletes) in one behaviour
MaxWrites == 2

\* entries in one bulk_insert batch
MaxBatch == 2

\* rows in a store filled before the scheduler starts
MaxLegacy == 3

\* the instants at which something happens: seconds 19, 20, 50, 51 of the
\* first minute, then instants five minutes and more later
Instants == {19, 20, 50, 51, 320, 321}

MaxIntervals == {DEFAULT_MAX_LOOP_INTERVAL, 30}

Row(key, task, args, kwargs, schedule, enabled) ==
    [args |-> args, kwargs |-> kwargs, schedule |-> schedule, task |-> task,
     enabled |-> enabled, task_key |-> key]

NoArgs == DumpArgs(<<>>)

OneArg == DumpArgs(<<IntV(1)>>)

TwoArgs == DumpArgs(<<IntV(1), IntV(2)>>)

NoKwargs == DumpKwargs(<<>>)

\* what the admin form submits for a new row (task_key is not a form column)
FormInputs ==
    { Row(<<>>, T1, NoArgs, NoKwargs, StarCron, TRUE),
      Row(<<>>, T2, OneArg, NoKwargs, FiveCron, TRUE),
      Row(<<>>, T1, BadJson, NoKwargs, StarCron, TRUE),
      Row(<<>>, T2, NoArgs, NoKwargs, ShortCron, TRUE),
      Row(<<>>, Gone, NoArgs, NoKwargs, StarCron, TRUE),
      Row(<<>>, T1, TwoArgs, NoKwargs, StarCron, TRUE) }

\* what the admin form changes on an existing row
Edit(r, e) ==
    CASE e = "toggle"   -> [r EXCEPT !.enabled = ~r.enabled]
      [] e = "schedule" -> [r EXCEPT !.schedule = FiveCron]
      [] e = "badcron"  -> [r EXCEPT !.schedule = BadCron]
      [] e = "args"     -> [r EXCEPT !.args = OneArg]

Edits == {"toggle", "schedule", "badcron", "args"}

\* the edits that matter to the cache: enable/disable and a new schedule
SyncEdits == {"toggle", "schedule"}

\* entries callers hand to CeleryTasksScheduleModel.bulk_insert
BulkRows ==
    << Row(get_task_key(T1, <<>>, <<>>), T1, NoArgs, NoKwargs, FiveCron, TRUE),
       Row(get_task_key(T2, <<>>, <<>>), T2, NoArgs, NoKwargs, StarCron, TRUE),
       Row(get_task_key(T2, <<IntV(1)>>, <<>>), T2, BadJson, NoKwargs, StarCron, TRUE),
       Row(get_task_key(T1, <<IntV(1)>>, <<>>), T1, OneArg, NoKwargs, BadCron, TRUE),
       Row(get_task_key(Gone, <<>>, <<>>), Gone, NoArgs, NoKwargs, StarCron, TRUE) >>

BulkData == {BulkRows[i] : i \in 1..Len(BulkRows)}

RECURSIVE SeqsUpTo(_, _)
\* the sequences over S of length 1..n
SeqsUpTo(S, n) ==
    IF n = 0 THEN {}
    ELSE {<<x>> : x \in S} \cup
         {Append(q, x) : q \in SeqsUpTo(S, n - 1), x \in S}

\* The batches of up to MaxBatch entries, repeated entries included, each in
\* one order of its entries: bulk_insert computes with sets of keys and one
\* INSERT of all parameters, which do not depend on the order.
Batches ==
    LET index(r) == CHOOSE i \in 1..Len(BulkRows) : BulkRows[i] = r
    IN  {b \in SeqsUpTo(BulkData, MaxBatch) :
            \A i \in 1..(Len(b) - 1) : index(b[i]) <= index(b[i + 1])}

\* task names a delete call is given
DeleteInputs == {{Gone}, {T2}}

\* a crontab() object, by its _orig_ fields: each is the argument as passed,
\* a pattern string, an integer or a list of integers
Star == <<"str", <<"*">> >>

Cron(minute, hour, day_of_month, month_of_year, day_of_week) ==
    [_orig_minute |-> minute, _orig_hour |-> hour, _orig_day_of_month |-> day_of_month,
     _orig_month_of_year |-> month_of_year, _orig_day_of_week |-> day_of_week]

BeatEntry(task, args, kwargs, schedule) ==
    [args |-> args, kwargs |-> kwargs, schedule |-> schedule, task |-> task]

\* app.conf.beat_schedule values, in the dict's order: the second static
\* schedule names the same task, args and kwargs twice, the third is
\* crontab(minute=0, hour=[1, 2])
BeatSchedules ==
    { << BeatEntry(T1, <<>>, <<>>, Cron(Star, Star, Star, Star, Star)),
         BeatEntry(T2, <<IntV(1)>>, <<>>,
                   Cron(<<"str", <<"5">> >>, IntV(4), Star, Star, <<"str", <<"1">> >>)) >>,
      << BeatEntry(T2, <<>>, <<>>, Cron(Star, Star, Star, Star, Star)),
         BeatEntry(T2, <<>>, <<>>, Cron(<<"str", <<"5">> >>, Star, Star, Star, Star)) >>,
      << BeatEntry(T2, <<>>, << <<<<"n">>, IntV(1)>> >>,
                   Cron(IntV(0), <<"list", <<1, 2>> >>, Star, Star, Star)) >> }

\* the db_entries built by _fill_celery_tasks_schedule
BeatDbEntries(beat_schedule) ==
    [i \in 1..Len(beat_schedule) |->
        LET task == beat_schedule[i]
        IN  Row(get_task_key(task.task, task.args, task.kwargs),
                task.task,
                DumpArgs(task.args),
                DumpKwargs(task.kwargs),
                Join(<<" ">>, << PyStr(task.schedule._orig_minute),
                                 PyStr(task.schedule._orig_hour),
                                 PyStr(task.schedule._orig_day_of_month),
                                 PyStr(task.schedule._orig_month_of_year),
                                 PyStr(task.schedule._orig_day_of_week) >>),
                TRUE)]

-----------------------------------------------------------------------------
(* The state machine.                                                      *)

scheduler_vars == <<max_interval, last, cache, pc, enabled_tasks, decision, stale_seen>>

\* the state of setup_schedule's steps and of the get_task_key application
setup_vars == <<retries, attempts, deprecated_tasks, call>>

\* no application of get_task_key is under way
NoCall == [args |-> <<>>, kwargs |-> <<>>, name |-> <<>>, key |-> <<>>, done |-> FALSE]

CatalogRow(task, params, description, tags) ==
    [task |-> task, params |-> params, description |-> description, tags |-> tags]

\* the celery_tasks rows of a bootstrapped store: the live tasks and one task
\* of an earlier deployment
StoredCatalog ==
    { CatalogRow(T1, <<"n">>, <<>>, <<"a">>),
      CatalogRow(T2, <<"n">>, <<"d">>, <<"b">>),
      CatalogRow(Gone, <<>>, <<>>, <<"a">>) }

Outcome(op, raised, inserted) == [op |-> op, raised |-> raised, inserted |-> inserted]

\* a lazily constructed scheduler (_schedule and _last_updated_at unset) on a
\* bootstrapped store: the clock row exists, the catalog holds the live tasks
\* and one task of an earlier deployment, no schedule row yet
Init ==
    /\ now = 19
    /\ clock = 19
    /\ rows = {}
    /\ catalog = StoredCatalog
    /\ txn = NoTxn
    /\ max_interval \in MaxIntervals
    /\ last = None
    /\ cache = EmptyMap
    /\ pc = "idle"
    /\ enabled_tasks = EmptyMap
    /\ decision = "none"
    /\ stale_seen = FALSE
    /\ dirty = FALSE
    /\ lastOp = Outcome("none", FALSE, 0)
    /\ writes = 0
    /\ retries = 0
    /\ attempts = 0
    /\ deprecated_tasks = {}
    /\ call = NoCall

\* the wall clock moves on
AdvanceTime ==
    /\ \E t \in Instants : t > now /\ now' = t
    /\ UNCHANGED <<clock, rows, catalog, txn, scheduler_vars, dirty, lastOp, writes>>
    /\ UNCHANGED setup_vars

\* setup_schedule of a scheduler constructed without lazy=True: its last
\* statement calls _update_schedule whatever the second of the minute
SetupSchedule ==
    /\ pc = "idle"
    /\ last = None
    /\ decision = "none"
    /\ decision' = "setup"
    /\ pc' = "update"
    /\ UNCHANGED <<now, clock, rows, catalog, txn, max_interval, last, cache,
                   enabled_tasks, stale_seen, dirty, lastOp, writes>>
    /\ UNCHANGED setup_vars

\* DatabaseScheduler.schedule, up to the return of _need_update
Tick ==
    /\ pc = "idle"
    /\ decision' = NeedUpdate(now, max_interval, last, clock)
    /\ stale_seen' = OutOfSync(now, last, clock)
    /\ pc' = IF decision' \in Refreshing THEN "update" ELSE "idle"
    /\ UNCHANGED <<now, clock, rows, catalog, txn, max_interval, last, cache,
                   enabled_tasks, dirty, lastOp, writes>>
    /\ UNCHANGED setup_vars

\* _update_schedule: enabled_tasks = self._get_enabled_tasks()
ReadRows ==
    /\ pc = "update"
    /\ enabled_tasks' = GetEnabledTasks(rows)
    /\ pc' = "loaded"
    /\ dirty' = FALSE
    /\ UNCHANGED <<now, clock, rows, catalog, txn, max_interval, last, cache,
                   decision, stale_seen, lastOp, writes>>
    /\ UNCHANGED setup_vars

\* a variant of _update_schedule that patches the map it has: dict.update
\* with the loaded entries
UpdateScheduleByPatching ==
    /\ pc = "loaded"
    /\ cache' = InstallDefaultEntries(
                    [k \in DOMAIN cache \cup DOMAIN enabled_tasks |->
                        IF k \in DOMAIN enabled_tasks THEN enabled_tasks[k] ELSE cache[k]])
    /\ last' = now
    /\ enabled_tasks' = EmptyMap
    /\ pc' = "idle"
    /\ UNCHANGED <<now, clock, rows, catalog, txn, max_interval, decision,
                   stale_seen, dirty, lastOp, writes>>
    /\ UNCHANGED setup_vars

\* _update_schedule: self._schedule = enabled_tasks; self._last_updated_at = now;
\* self.install_default_entries(self._schedule)
UpdateSchedule ==
    /\ pc = "loaded"
    /\ cache' = InstallDefaultEntries(enabled_tasks)
    /\ last' = now
    /\ enabled_tasks' = EmptyMap
    /\ pc' = "idle"
    /\ UNCHANGED <<now, clock, rows, catalog, txn, max_interval, decision,
                   stale_seen, dirty, lastOp, writes>>
    /\ UNCHANGED setup_vars

\* the rows a unit of work has locked: other transactions wait for them
Locked(keys, tasks) ==
    \/ keys \cap (KeysOf(txn.add) \cup KeysOf(txn.del)) # {}
    \/ \E r \in txn.add \cup txn.del : r.task \in tasks

\* the flush of an ORM unit of work: before_* handler, the statement with the
\* table's constraints, after_* handler (the clock bump, committed by its own
\* session).  `del` are the rows it replaces or removes, `target` the row it
\* writes (for "delete", the row it removes).
OrmFlush(op, del, target) ==
    LET v == IF op = "delete" THEN Ok(target) ELSE before_validator(target)
        integrity == /\ v.value.task_key \notin KeysOf(rows \ del)
                     /\ v.value.task \in CatalogTasks(catalog)
    IN  /\ txn = NoTxn
        /\ writes < MaxWrites
        /\ IF v.ok /\ (op = "delete" \/ integrity)
           THEN /\ txn' = [op |-> op, del |-> del,
                           add |-> IF op = "delete" THEN {} ELSE {v.value}]
                /\ clock' = update_last_updated_at(now)
                /\ writes' = writes + 1
           ELSE /\ UNCHANGED <<txn, clock, writes>>
        /\ UNCHANGED <<now, rows, catalog, scheduler_vars, dirty, lastOp>>
        /\ UNCHANGED setup_vars

\* the admin creates a row
OrmInsert == \E target \in FormInputs : OrmFlush("insert", {}, target)

\* the admin edits a row
OrmUpdate(edits) == \E r \in rows, e \in edits : OrmFlush("update", {r}, Edit(r, e))

\* the admin deletes a row
OrmDelete == \E r \in rows : OrmFlush("delete", {r}, r)

\* session.commit() of the unit of work
OrmCommit ==
    /\ txn # NoTxn
    /\ rows' = (rows \ txn.del) \cup txn.add
    /\ dirty' = (dirty \/ rows' # rows)
    /\ txn' = NoTxn
    /\ UNCHANGED <<now, clock, catalog, scheduler_vars, lastOp, writes>>
    /\ UNCHANGED setup_vars

\* the unit of work fails after the flush and is rolled back
OrmRollback ==
    /\ txn # NoTxn
    /\ txn' = NoTxn
    /\ UNCHANGED <<now, clock, rows, catalog, scheduler_vars, dirty, writes, lastOp>>
    /\ UNCHANGED setup_vars

\* CeleryTasksScheduleModel.bulk_insert(data), one transaction
BulkInsert(data) ==
    LET res == ScheduleBulkInsert(rows, catalog, data)
    IN  /\ writes < MaxWrites
        /\ ~Locked({data[i].task_key : i \in 1..Len(data)}, {})
        /\ writes' = writes + 1
        /\ rows' = res.rows
        /\ dirty' = (dirty \/ rows' # rows)
        /\ lastOp' = Outcome("bulk_insert", res.raised, res.inserted)
        /\ UNCHANGED <<now, clock, catalog, txn, scheduler_vars>>
        /\ UNCHANGED setup_vars

\* a caller of the store inserts a batch
BulkInsertCall == \E data \in Batches : BulkInsert(data)

OneKwarg == DumpKwargs(<< <<<<"n">>, IntV(1)>> >>)

\* rows found in a store written by earlier versions, bulk calls and the admin
LegacyRows ==
    BulkData \cup
    { Row(get_task_key(T1, <<IntV(1), IntV(2)>>, <<>>), T1, TwoArgs, BadJson, StarCron, TRUE),
      Row(get_task_key(T2, <<IntV(1), IntV(2)>>, <<>>), T2, TwoArgs, NoKwargs, ShortCron, TRUE),
      Row(get_task_key(T1, <<>>, << <<<<"n">>, IntV(1)>> >>), T1, NoArgs, OneKwarg, FiveCron, FALSE),
      Row(get_task_key(T2, <<>>, << <<<<"n">>, IntV(1)>> >>), T2, NoArgs, OneKwarg, StarCron, TRUE) }

\* the stores a scheduler may start over (task_key is unique)
LegacyStores ==
    {store \in SUBSET LegacyRows :
        /\ Cardinality(store) <= MaxLegacy
        /\ Cardinality(KeysOf(store)) = Cardinality(store)}

\* DatabaseScheduler._fill_celery_tasks_schedule of a starting beat process
FillCeleryTasksSchedule ==
    \E beat_schedule \in BeatSchedules : BulkInsert(BeatDbEntries(beat_schedule))

\* CeleryTasksScheduleModel.delete(tasks), one transaction
ScheduleDeleteCall ==
    \E tasks \in DeleteInputs :
        /\ writes < MaxWrites
        /\ ~Locked({}, tasks)
        /\ writes' = writes + 1
        /\ rows' = ScheduleDelete(rows, tasks)
        /\ dirty' = (dirty \/ rows' # rows)
        /\ UNCHANGED <<now, clock, catalog, txn, scheduler_vars, lastOp>>
        /\ UNCHANGED setup_vars

\* CeleryTasksModel.delete(tasks), one transaction; schedule rows cascade
TasksDeleteCall ==
    \E tasks \in DeleteInputs :
        /\ writes < MaxWrites
        /\ ~Locked({}, tasks)
        /\ writes' = writes + 1
        /\ catalog' = TasksDelete(catalog, tasks)
        /\ rows' = Cascade(rows, tasks)
        /\ dirty' = (dirty \/ rows' # rows)
        /\ UNCHANGED <<now, clock, txn, scheduler_vars, lastOp>>
        /\ UNCHANGED setup_vars

\* entries callers hand to CeleryTasksModel.bulk_insert and bulk_update: the
\* stored row of t1, t1 with another signature, docstring and category, and
\* rows for t2 and for the task of the earlier deployment
TaskEntries ==
    << CatalogRow(T1, <<"n">>, <<>>, <<"a">>),
       CatalogRow(T1, <<"m">>, <<"d">>, <<"z">>),
       CatalogRow(T2, <<"n">>, <<"e">>, <<"z">>),
       CatalogRow(Gone, <<"n">>, <<>>, <<"z">>) >>

\* the batches of up to MaxBatch catalog entries, repeated tasks included
CatalogBatches ==
    LET index(e) == CHOOSE i \in 1..Len(TaskEntries) : TaskEntries[i] = e
    IN  {b \in SeqsUpTo(SeqToSet(TaskEntries), MaxBatch) :
            \A i \in 1..(Len(b) - 1) : index(b[i]) <= index(b[i + 1])}

\* CeleryTasksModel.bulk_insert(data), one transaction
CatalogInsert(data) ==
    LET res == TasksBulkInsert(catalog, data)
    IN  /\ writes < MaxWrites
        /\ writes' = writes + 1
        /\ catalog' = res.catalog
        /\ lastOp' = Outcome("tasks_bulk_insert", res.raised, res.inserted)
        /\ UNCHANGED <<now, clock, rows, txn, scheduler_vars, dirty>>
        /\ UNCHANGED setup_vars

\* a caller of the store inserts a batch of catalog entries
CatalogInsertCall == \E data \in CatalogBatches : CatalogInsert(data)

\* CeleryTasksModel.bulk_update(data), one transaction
CatalogUpdate(data) ==
    /\ writes < MaxWrites
    /\ writes' = writes + 1
    /\ catalog' = TasksBulkUpdate(catalog, data)
    /\ lastOp' = Outcome("tasks_bulk_update", FALSE, 0)
    /\ UNCHANGED <<now, clock, rows, txn, scheduler_vars, dirty>>
    /\ UNCHANGED setup_vars

\* a caller of the store updates the catalog from a batch of entries
CatalogUpdateCall == \E data \in CatalogBatches : CatalogUpdate(data)

\* the tags an operator types into the admin form
UserTags == {<<"u">>, <<>>}

\* CeleryTasksAdmin: the form edits the tags of a catalog row and nothing else
AdminEditTags ==
    \E c \in catalog, tags \in UserTags :
        /\ writes < MaxWrites
        /\ writes' = writes + 1
        /\ tags # c.tags
        /\ catalog' = (catalog \ {c}) \cup {[c EXCEPT !.tags = tags]}
        /\ UNCHANGED <<now, clock, rows, txn, scheduler_vars, dirty, lastOp>>
        /\ UNCHANGED setup_vars

PREPARE_MODELS_MAX_RETRIES == 10

\* a variant of the retry loop that tests retries <= PREPARE_MODELS_MAX_RETRIES
CreateAllFailsOnceMore ==
    /\ pc = "prepare"
    /\ attempts' = attempts + 1
    /\ IF retries <= PREPARE_MODELS_MAX_RETRIES
       THEN retries' = retries + 1 /\ pc' = "prepare"
       ELSE retries' = retries /\ pc' = "aborted"
    /\ UNCHANGED <<now, clock, rows, catalog, txn, max_interval, last, cache,
                   enabled_tasks, decision, stale_seen, dirty, lastOp, writes,
                   deprecated_tasks, call>>

\* _prepare_models: create_all raises DatabaseError; the loop sleeps and tries
\* again while retries < PREPARE_MODELS_MAX_RETRIES, else re-raises
CreateAllFails ==
    /\ pc = "prepare"
    /\ attempts' = attempts + 1
    /\ IF retries < PREPARE_MODELS_MAX_RETRIES
       THEN retries' = retries + 1 /\ pc' = "prepare"
       ELSE retries' = retries /\ pc' = "aborted"
    /\ UNCHANGED <<now, clock, rows, catalog, txn, max_interval, last, cache,
                   enabled_tasks, decision, stale_seen, dirty, lastOp, writes,
                   deprecated_tasks, call>>

\* _prepare_models: create_all returns and the loop breaks
CreateAllSucceeds ==
    /\ pc = "prepare"
    /\ attempts' = attempts + 1
    /\ pc' = "init_clock"
    /\ UNCHANGED <<now, clock, rows, catalog, txn, max_interval, last, cache,
                   enabled_tasks, decision, stale_seen, dirty, lastOp, writes,
                   retries, deprecated_tasks, call>>

\* CeleryTasksScheduleMetaModel.init_last_updated_at: insert row 1 unless there
InitLastUpdatedAt ==
    /\ pc = "init_clock"
    /\ clock' = IF clock = None THEN now ELSE clock
    /\ pc' = "clean"
    /\ UNCHANGED <<now, rows, catalog, txn, max_interval, last, cache,
                   enabled_tasks, decision, stale_seen, dirty, lastOp, writes>>
    /\ UNCHANGED setup_vars

\* _clean_deprecated: deprecated_tasks = db_tasks - tasks
CleanRead ==
    /\ pc = "clean"
    /\ deprecated_tasks' = CatalogTasks(catalog) \ Tasks
    /\ pc' = IF deprecated_tasks' # {} THEN "clean_delete" ELSE "fill_insert"
    /\ UNCHANGED <<now, clock, rows, catalog, txn, max_interval, last, cache,
                   enabled_tasks, decision, stale_seen, dirty, lastOp, writes,
                   retries, attempts, call>>

\* _clean_deprecated: self.ModelTask.delete(tasks=list(deprecated_tasks))
CleanDelete ==
    /\ pc = "clean_delete"
    /\ ~Locked({}, deprecated_tasks)
    /\ catalog' = TasksDelete(catalog, deprecated_tasks)
    /\ rows' = Cascade(rows, deprecated_tasks)
    /\ dirty' = (dirty \/ rows' # rows)
    /\ deprecated_tasks' = {}
    /\ pc' = "fill_insert"
    /\ UNCHANGED <<now, clock, txn, max_interval, last, cache, enabled_tasks,
                   decision, stale_seen, lastOp, writes, retries, attempts, call>>

\* the db_entries _fill_celery_tasks builds from app.tasks, sorted by name:
\* t1 has a new signature and docstring, t2 has moved to another module
RegistryEntries ==
    << CatalogRow(T1, <<"m">>, <<"d">>, <<"a">>),
       CatalogRow(T2, <<"n">>, <<"d">>, <<"c">>) >>

\* _fill_celery_tasks: self.ModelTask.bulk_insert(data=db_entries)
FillInsert ==
    LET res == TasksBulkInsert(catalog, RegistryEntries)
    IN  /\ pc = "fill_insert"
        /\ catalog' = res.catalog
        /\ lastOp' = Outcome("tasks_bulk_insert", res.raised, res.inserted)
        /\ pc' = IF res.raised THEN "aborted" ELSE "fill_update"
        /\ UNCHANGED <<now, clock, rows, txn, max_interval, last, cache,
                       enabled_tasks, decision, stale_seen, dirty, writes>>
        /\ UNCHANGED setup_vars

\* _fill_celery_tasks: self.ModelTask.bulk_update(data=db_entries)
FillUpdate ==
    /\ pc = "fill_update"
    /\ catalog' = TasksBulkUpdate(catalog, RegistryEntries)
    /\ lastOp' = Outcome("tasks_bulk_update", FALSE, 0)
    /\ pc' = "seed"
    /\ UNCHANGED <<now, clock, rows, txn, max_interval, last, cache,
                   enabled_tasks, decision, stale_seen, dirty, writes>>
    /\ UNCHANGED setup_vars

\* setup_schedule: _fill_celery_tasks_schedule, then on to _update_schedule;
\* an error of the INSERT ends the start-up
Seed ==
    \E beat_schedule \in BeatSchedules \cup {<<>>} :
        LET res == IF beat_schedule = <<>>
                   THEN [raised |-> FALSE, rows |-> rows, inserted |-> 0]
                   ELSE ScheduleBulkInsert(rows, catalog, BeatDbEntries(beat_schedule))
        IN  /\ pc = "seed"
            /\ ~Locked({r.task_key : r \in res.rows \ rows}, {})
            /\ rows' = res.rows
            /\ dirty' = (dirty \/ rows' # rows)
            /\ lastOp' = Outcome("bulk_insert", res.raised, res.inserted)
            /\ pc' = IF res.raised THEN "aborted" ELSE "update"
            /\ decision' = IF res.raised THEN decision ELSE "setup"
            /\ UNCHANGED <<now, clock, catalog, txn, max_interval, last, cache,
                           enabled_tasks, stale_seen, writes>>
            /\ UNCHANGED setup_vars

\* _need_update: self.ModelMeta.get_last_updated_at() raises a storage error.
\* The read is the last operand of the `or`: it is reached outside the quiet
\* window when _last_updated_at is set and not older than sync_threshold.
GetLastUpdatedAtFails ==
    /\ pc = "idle"
    /\ ~QuietWindow(now, max_interval)
    /\ last # None
    /\ ~(last < now - MAX_SYNC_SCHEDULE_INTERVAL * 60)
    /\ decision' = "error"
    /\ pc' = "raised"
    /\ UNCHANGED <<now, clock, rows, catalog, txn, max_interval, last, cache,
                   enabled_tasks, stale_seen, dirty, lastOp, writes>>
    /\ UNCHANGED setup_vars

\* a variant of _update_schedule that stamps _last_updated_at before it reads
\* the rows
SelectEnabledEntriesFailsAfterStamp ==
    /\ pc = "update"
    /\ decision \in Refreshing
    /\ last' = now
    /\ pc' = "raised"
    /\ UNCHANGED <<now, clock, rows, catalog, txn, max_interval, cache,
                   enabled_tasks, decision, stale_seen, dirty, lastOp, writes>>
    /\ UNCHANGED setup_vars

\* _update_schedule in a tick: select_enabled_entries() raises a storage error
\* in _get_enabled_tasks, outside its try; the assignments are not reached
SelectEnabledEntriesFails ==
    /\ pc = "update"
    /\ decision \in Refreshing
    /\ pc' = "raised"
    /\ UNCHANGED <<now, clock, rows, catalog, txn, max_interval, last, cache,
                   enabled_tasks, decision, stale_seen, dirty, lastOp, writes>>
    /\ UNCHANGED setup_vars

\* the caller of schedule goes on to its next tick
NextTickAfterError ==
    /\ pc = "raised"
    /\ pc' = "idle"
    /\ UNCHANGED <<now, clock, rows, catalog, txn, max_interval, last, cache,
                   enabled_tasks, decision, stale_seen, dirty, lastOp, writes>>
    /\ UNCHANGED setup_vars

\* The running scheduler, the admin writing through the ORM, and a second
\* beat process that starts and seeds the store from its static schedule.
Next ==
    \/ AdvanceTime
    \/ SetupSchedule
    \/ Tick
    \/ ReadRows
    \/ UpdateSchedule
    \/ OrmInsert
    \/ OrmUpdate(SyncEdits)
    \/ OrmDelete
    \/ OrmCommit
    \/ OrmRollback
    \/ FillCeleryTasksSchedule

Spec == Init /\ [][Next]_vars

\* The same program with a dispatch loop that keeps ticking: beat's Service
\* reads `schedule` on every iteration of its loop, _update_schedule runs to
\* its end once started, and the wall clock moves on.
LiveSpec ==
    /\ Spec
    /\ WF_vars(AdvanceTime)
    /\ WF_vars(Tick)
    /\ WF_vars(ReadRows)
    /\ WF_vars(UpdateSchedule)

\* Every write path of the store, called with any input; the scheduler rests.
NextStore ==
    \/ AdvanceTime
    \/ OrmInsert
    \/ OrmUpdate(Edits)
    \/ OrmDelete
    \/ OrmCommit
    \/ OrmRollback
    \/ BulkInsertCall
    \/ FillCeleryTasksSchedule
    \/ ScheduleDeleteCall
    \/ TasksDeleteCall

SpecStore == Init /\ [][NextStore]_vars

\* The write paths within one instant: no store call but the clock bump
\* reads the time.
NextBulk ==
    \/ OrmInsert
    \/ OrmUpdate(Edits)
    \/ OrmDelete
    \/ OrmCommit
    \/ OrmRollback
    \/ BulkInsertCall
    \/ FillCeleryTasksSchedule
    \/ ScheduleDeleteCall
    \/ TasksDeleteCall

SpecBulk == Init /\ [][NextBulk]_vars

\* The multi-row writes of both tables and the admin's tag edits, over the
\* catalog of any stage of a deployment.
InitWrites ==
    /\ now = 19
    /\ clock = 19
    /\ rows = {}
    /\ catalog \in SUBSET StoredCatalog
    /\ txn = NoTxn
    /\ max_interval = DEFAULT_MAX_LOOP_INTERVAL
    /\ last = None
    /\ cache = EmptyMap
    /\ pc = "idle"
    /\ enabled_tasks = EmptyMap
    /\ decision = "none"
    /\ stale_seen = FALSE
    /\ dirty = FALSE
    /\ lastOp = Outcome("none", FALSE, 0)
    /\ writes = 0
    /\ retries = 0
    /\ attempts = 0
    /\ deprecated_tasks = {}
    /\ call = NoCall

NextWrites ==
    \/ BulkInsertCall
    \/ ScheduleDeleteCall
    \/ TasksDeleteCall
    \/ CatalogInsertCall
    \/ CatalogUpdateCall
    \/ AdminEditTags

SpecWrites == InitWrites /\ [][NextWrites]_vars

\* schedule rows the earlier deployment left: a row of t1, a disabled row of
\* t2 and a row of the task that is no longer registered
SetupRows ==
    { Row(get_task_key(T1, <<>>, <<>>), T1, NoArgs, NoKwargs, FiveCron, TRUE),
      Row(get_task_key(T2, <<>>, <<>>), T2, NoArgs, NoKwargs, StarCron, FALSE),
      Row(get_task_key(Gone, <<>>, <<>>), Gone, NoArgs, NoKwargs, StarCron, TRUE) }

\* setup_schedule of a starting beat process, over tables not yet created or
\* over the store of an earlier deployment, while the admin edits tags and
\* schedule rows.
InitSetup ==
    /\ now = 19
    /\ \/ clock = None /\ rows = {} /\ catalog = {}
       \/ /\ clock = 19
          /\ catalog \in SUBSET StoredCatalog
          /\ rows \in {store \in SUBSET SetupRows :
                          \A r \in store : r.task \in CatalogTasks(catalog)}
    /\ txn = NoTxn
    /\ max_interval = DEFAULT_MAX_LOOP_INTERVAL
    /\ last = None
    /\ cache = EmptyMap
    /\ pc = "prepare"
    /\ enabled_tasks = EmptyMap
    /\ decision = "none"
    /\ stale_seen = FALSE
    /\ dirty = FALSE
    /\ lastOp = Outcome("none", FALSE, 0)
    /\ writes = 0
    /\ retries = 0
    /\ attempts = 0
    /\ deprecated_tasks = {}
    /\ call = NoCall

NextSetup ==
    \/ CreateAllFails
    \/ CreateAllSucceeds
    \/ InitLastUpdatedAt
    \/ CleanRead
    \/ CleanDelete
    \/ FillInsert
    \/ FillUpdate
    \/ Seed
    \/ ReadRows
    \/ UpdateSchedule
    \/ AdminEditTags
    \/ OrmInsert
    \/ OrmCommit
    \/ OrmRollback

SpecSetup == InitSetup /\ [][NextSetup]_vars

SendEmail == <<"s", "e", "n", "d", "_", "e", "m", "a", "i", "l">>

StrV(s) == <<"str", s>>

BoolV(b) == <<"bool", b>>

\* values a caller passes in args and kwargs: numbers, an address, a text of
\* removed characters only, a dash, a boolean
KeyValues ==
    { IntV(2), IntV(10), StrV(<<"a", "@", "x", ".", "c", "o", "m">>),
      StrV(<<"(", " ", "'", ")">>), StrV(<<"-">>), BoolV(TRUE) }

\* the longest args and kwargs of a get_task_key call of the model
MaxItems == 2

KeyNames == {<<"u", "r", "g", "e", "n", "t">>, <<"n">>}

\* the (name, args, kwargs) a caller applies get_task_key to
KeyCalls ==
    [name : {SendEmail, T1},
     args : {<<>>} \cup SeqsUpTo(KeyValues, MaxItems),
     kwargs : {<<>>} \cup {<< <<k, v>> >> : k \in KeyNames, v \in KeyValues},
     key : {<<>>},
     done : {FALSE}]

\* get_task_key(name, args, kwargs) is called and returns
GetTaskKeyCall ==
    /\ ~call.done
    /\ call' = [call EXCEPT !.key = get_task_key(call.name, call.args, call.kwargs),
                            !.done = TRUE]
    /\ UNCHANGED <<now, clock, rows, catalog, txn, scheduler_vars, dirty, lastOp,
                   writes, retries, attempts, deprecated_tasks>>

\* get_task_key applied to any of the inputs
InitKey ==
    /\ now = 19
    /\ clock = 19
    /\ rows = {}
    /\ catalog = StoredCatalog
    /\ txn = NoTxn
    /\ max_interval = DEFAULT_MAX_LOOP_INTERVAL
    /\ last = None
    /\ cache = EmptyMap
    /\ pc = "idle"
    /\ enabled_tasks = EmptyMap
    /\ decision = "none"
    /\ stale_seen = FALSE
    /\ dirty = FALSE
    /\ lastOp = Outcome("none", FALSE, 0)
    /\ writes = 0
    /\ retries = 0
    /\ attempts = 0
    /\ deprecated_tasks = {}
    /\ call \in KeyCalls

NextKey == GetTaskKeyCall

SpecKey == InitKey /\ [][NextKey]_vars

\* schedule rows stored under the key of the default entry: one that differs
\* from the default in its schedule, one whose schedule has four fields, one
\* that is disabled
DefaultRows ==
    { Row(DefaultKey, DefaultKey, NoArgs, NoKwargs, FiveCron, TRUE),
      Row(DefaultKey, DefaultKey, NoArgs, NoKwargs, ShortCron, TRUE),
      Row(DefaultKey, DefaultKey, NoArgs, NoKwargs, FiveCron, FALSE) }

\* The scheduler reloading from a store that may hold a row under the key of
\* the default entry (the catalog then lists celery.backend_cleanup).
InitDefault ==
    /\ now = 19
    /\ clock = 19
    /\ rows \in {store \in SUBSET (DefaultRows \cup SetupRows) :
                    Cardinality(KeysOf(store)) = Cardinality(store)}
    /\ catalog = StoredCatalog \cup {CatalogRow(DefaultKey, <<>>, <<>>, <<>>)}
    /\ txn = NoTxn
    /\ max_interval \in MaxIntervals
    /\ last = None
    /\ cache = EmptyMap
    /\ pc = "idle"
    /\ enabled_tasks = EmptyMap
    /\ decision = "none"
    /\ stale_seen = FALSE
    /\ dirty = FALSE
    /\ lastOp = Outcome("none", FALSE, 0)
    /\ writes = 0
    /\ retries = 0
    /\ attempts = 0
    /\ deprecated_tasks = {}
    /\ call = NoCall

\* The validated write paths (the admin's inserts, updates and deletes through
\* the ORM) and the seeding from the static schedule, over a store that
\* earlier seedings have filled.
InitValidated ==
    /\ now = 19
    /\ clock = 19
    /\ rows \in SUBSET {BulkRows[1], BulkRows[2]}
    /\ catalog = StoredCatalog
    /\ txn = NoTxn
    /\ max_interval = DEFAULT_MAX_LOOP_INTERVAL
    /\ last = None
    /\ cache = EmptyMap
    /\ pc = "idle"
    /\ enabled_tasks = EmptyMap
    /\ decision = "none"
    /\ stale_seen = FALSE
    /\ dirty = FALSE
    /\ lastOp = Outcome("none", FALSE, 0)
    /\ writes = 0
    /\ retries = 0
    /\ attempts = 0
    /\ deprecated_tasks = {}
    /\ call = NoCall

NextValidated ==
    \/ OrmInsert
    \/ OrmUpdate(Edits)
    \/ OrmDelete
    \/ OrmCommit
    \/ OrmRollback
    \/ FillCeleryTasksSchedule

SpecValidated == InitValidated /\ [][NextValidated]_vars

\* The running scheduler over a store whose reads may fail, with the admin
\* inserting rows.
NextFaulty ==
    \/ AdvanceTime
    \/ SetupSchedule
    \/ Tick
    \/ ReadRows
    \/ UpdateSchedule
    \/ GetLastUpdatedAtFails
    \/ SelectEnabledEntriesFails
    \/ NextTickAfterError
    \/ OrmInsert
    \/ OrmCommit
    \/ OrmRollback

SpecFaulty == Init /\ [][NextFaulty]_vars

\* The scheduler reloading from a store that bulk_insert callers have filled.
InitReload ==
    /\ now = 19
    /\ clock = 19
    /\ rows \in LegacyStores
    /\ catalog = StoredCatalog
    /\ txn = NoTxn
    /\ max_interval \in MaxIntervals
    /\ last = None
    /\ cache = EmptyMap
    /\ pc = "idle"
    /\ enabled_tasks = EmptyMap
    /\ decision = "none"
    /\ stale_seen = FALSE
    /\ dirty = FALSE
    /\ lastOp = Outcome("none", FALSE, 0)
    /\ writes = 0
    /\ retries = 0
    /\ attempts = 0
    /\ deprecated_tasks = {}
    /\ call = NoCall

NextReload ==
    \/ AdvanceTime
    \/ SetupSchedule
    \/ Tick
    \/ ReadRows
    \/ UpdateSchedule

SpecReload == InitReload /\ [][NextReload]_vars

\* The reload over a store that may hold a row under the default entry's key.
SpecDefault == InitDefault /\ [][NextReload]_vars

-----------------------------------------------------------------------------
(* The claims.                                                             *)

\* the tick falls in the quiet window of a fast loop
InQuietWindow ==
    max_interval < 30 /\ (now % 60 < 20 \/ now % 60 > 50)

\* the sync policy's three reasons to refresh
Stale ==
    \/ last = None
    \/ now - last > 5 * 60
    \/ last < clock

\* C1: a tick outside the quiet window starts a refresh exactly when no
\* refresh has happened yet, or the last one is more than five minutes old,
\* or it is older than the change clock; so with last >= clock no refresh
\* starts until the clock advances or the five minutes have passed.
C1_RefreshIffStale ==
    [][(Tick /\ ~InQuietWindow) => ((pc' = "update") <=> Stale)]_vars

\* a tick outside the quiet window found last < clock and started a refresh
C1_Witness ==
    /\ decision = "changed"
    /\ pc = "update"
    /\ last # None
    /\ last < clock
    /\ now - last <= 5 * 60

\* C2: with max_interval < 30 a tick at second 0..19 or 51..59 never starts
\* a refresh and changes nothing; a tick at second 20..50 with a stale cache
\* starts one; with max_interval >= 30 every tick with a stale cache does.
C2_QuietWindow ==
    [][Tick =>
        /\ (max_interval < 30 /\ (now % 60 < 20 \/ now % 60 > 50))
              => (pc' = "idle" /\ cache' = cache /\ last' = last)
        /\ (max_interval < 30 /\ now % 60 >= 20 /\ now % 60 <= 50 /\ Stale)
              => pc' = "update"
        /\ (max_interval >= 30 /\ Stale) => pc' = "update"]_vars

\* a fast loop ticked in the quiet window while the change clock was ahead
C2_Witness ==
    /\ decision = "suppressed"
    /\ stale_seen
    /\ max_interval < 30
    /\ pc = "idle"
    /\ last # None
    /\ last < clock
    /\ clock < now

\* C3: every store call that inserts, updates or deletes a schedule row sets
\* the change clock to the current time; the commit of an ORM unit of work,
\* whose handler made the bump at its flush, is the only other step that may
\* change the rows.
C3_EveryWriteBumpsClock ==
    [][rows' # rows => (clock' = now \/ (txn # NoTxn /\ txn' = NoTxn))]_vars

\* C6: the clock bump of an insert/update/delete handler becomes visible to
\* readers only together with the row change, when the unit of work commits:
\* never while the change is uncommitted, never for one that is rolled back.
C6_BumpCommitsWithRow ==
    [][clock' # clock => (txn # NoTxn /\ txn' = NoTxn)]_vars

\* The texts of the model that are valid JSON documents.
ValidJsonTexts ==
    { <<"[", "]">>, <<"[", "1", "]">>, <<"[", "1", ",", " ", "2", "]">>,
      <<"{", "}">>, <<"{", "\"", "n", "\"", ":", " ", "1", "}">> }

\* The schedule texts of the model with exactly five parseable crontab fields.
ValidCronTexts ==
    { <<"*", " ", "*", " ", "*", " ", "*", " ", "*">>,
      <<"5", " ", "4", " ", "*", " ", "*", " ", "1">> }

\* the enabled, well-formed rows of a store
EnabledWellFormed(store) ==
    {r \in store : /\ r.enabled
                   /\ r.args \in ValidJsonTexts
                   /\ r.kwargs \in ValidJsonTexts
                   /\ r.schedule \in ValidCronTexts}

\* An entry carries the task, the arguments and the crontab fields its row
\* holds as text.
Reflects(entry, r) ==
    /\ entry.task = r.task
    /\ DumpArgs(entry.args) = r.args
    /\ DumpKwargs(entry.kwargs) = r.kwargs
    /\ Join(<<" ">>, <<entry.schedule.minute, entry.schedule.hour,
                       entry.schedule.day_of_month, entry.schedule.month_of_year,
                       entry.schedule.day_of_week>>) = r.schedule

\* a map holds exactly the entries of the enabled, well-formed rows of a store
MapOf(map, store) ==
    /\ DOMAIN map = KeysOf(EnabledWellFormed(store))
    /\ \A r \in EnabledWellFormed(store) : Reflects(map[r.task_key], r)

\* the cache without the built-in default entries
CachedKeys == DOMAIN cache \ {DefaultKey}

\* C4, as stated: when a refresh completes with last_refreshed_at not older
\* than the change clock, the cached key set equals the set of enabled,
\* well-formed rows committed in the store. Stated for the stores every write
\* of which went through an insert/update/delete handler (no bulk call made)
\* and with no unit of work open.
C4_CoherentWhenNotOlderThanClock ==
    [][(UpdateSchedule /\ txn = NoTxn /\ lastOp.op = "none" /\ last' >= clock')
          => CachedKeys' = KeysOf(EnabledWellFormed(rows'))]_vars

\* C4, amended: last_refreshed_at never decreases, and whenever no row has
\* been committed since the row read of the last completed refresh, the cache
\* holds exactly the entries of the enabled, well-formed rows in the store.
C4_MonotonicAndCoherentSinceRead ==
    /\ [][last' >= last]_vars
    /\ [](pc = "idle" /\ last # None /\ ~dirty
            => MapOf([k \in CachedKeys |-> cache[k]], rows))

\* a refresh has completed at a later instant than the one before it, over a
\* store whose rows have not changed since it read them
C4_Witness ==
    /\ pc = "idle" /\ decision = "changed" /\ ~dirty
    /\ last > clock
    /\ CachedKeys # {}
    /\ \E r \in rows : ~r.enabled

\* the last instant of the model
LastInstant == CHOOSE t \in Instants : \A u \in Instants : u <= t

\* Rows were committed that no refresh has read, the scheduler is between two
\* ticks, and the model still has an instant later than the forced-resync
\* threshold of any refresh made so far.
UnseenCommit ==
    /\ pc = "idle"
    /\ dirty
    /\ LastInstant - now > MAX_SYNC_SCHEDULE_INTERVAL * 60

\* a refresh has loaded exactly the enabled, well-formed rows committed
LoadedCommitted == pc = "loaded" /\ ~dirty /\ MapOf(enabled_tasks, rows)

\* C5: while the dispatch loop keeps ticking, rows committed and not yet read
\* are eventually loaded by a refresh, a refresh that has loaded the rows
\* completes and publishes them with the default entries, and a tick outside
\* the quiet window more than 5 minutes after the last refresh starts a
\* refresh whatever the change clock says.
C5_EventuallyVisible ==
    /\ UnseenCommit ~> LoadedCommitted
    /\ (pc = "loaded") ~> (pc = "idle" /\ last # None)
    /\ [][UpdateSchedule
            => [k \in DOMAIN cache' \ {DefaultKey} |-> cache'[k]] = enabled_tasks]_vars
    /\ [][(Tick /\ ~InQuietWindow /\ last # None
                /\ now - last > MAX_SYNC_SCHEDULE_INTERVAL * 60)
            => pc' = "update"]_vars

\* a forced resync has loaded rows that the change-clock comparison missed
C5_Witness ==
    /\ decision = "forced"
    /\ LoadedCommitted
    /\ last >= clock
    /\ ~MapOf([k \in CachedKeys |-> cache[k]], rows)

\* a row the conversion to an entry cannot take
Malformed(r) ==
    \/ r.args \notin ValidJsonTexts
    \/ r.kwargs \notin ValidJsonTexts
    \/ r.schedule \notin ValidCronTexts

\* C7: the row read of a refresh always completes; a row whose args or kwargs
\* are not valid JSON or whose schedule does not have five parseable crontab
\* fields is left out of the rebuilt map, and every enabled well-formed row
\* is in it with the entry of its own text, whatever the other rows are.
C7_ReloadFaultIsolation ==
    [][ReadRows =>
          /\ pc' = "loaded"
          /\ \A r \in rows : Malformed(r) => r.task_key \notin DOMAIN enabled_tasks'
          /\ \A r \in rows : (r.enabled /\ ~Malformed(r)) =>
                /\ r.task_key \in DOMAIN enabled_tasks'
                /\ Reflects(enabled_tasks'[r.task_key], r)]_vars

\* a refresh has loaded a store holding enabled malformed rows next to enabled
\* well-formed ones
C7_Witness ==
    /\ pc = "loaded"
    /\ \E r \in rows : r.enabled /\ r.args \notin ValidJsonTexts
    /\ \E r \in rows : r.enabled /\ ~Malformed(r)
    /\ DOMAIN enabled_tasks = KeysOf(EnabledWellFormed(rows))

\* C8, as stated: immediately after a refresh the cache has an entry for a
\* key, the default entries apart, if and only if the store holds an enabled,
\* well-formed row with that key.
C8_CacheIffStoreHolds ==
    [][UpdateSchedule =>
          \A k \in (KeysOf(rows') \cup DOMAIN cache') \ {DefaultKey} :
              k \in DOMAIN cache' <=> k \in KeysOf(EnabledWellFormed(rows'))]_vars

\* C8, amended: the row read loads an entry for a key if and only if the store
\* holds an enabled, well-formed row with that key at that moment; the
\* completion of the refresh replaces the whole cache by the loaded entries
\* and the default entries, keeping nothing of the old map; and nothing but
\* the completion of a refresh changes the cache.
C8_RebuiltFromRowsRead ==
    /\ [][ReadRows =>
            \A k \in KeysOf(rows) \cup DOMAIN enabled_tasks' :
                k \in DOMAIN enabled_tasks' <=> k \in KeysOf(EnabledWellFormed(rows))]_vars
    /\ [][UpdateSchedule =>
            /\ DOMAIN cache' = DOMAIN enabled_tasks \cup {DefaultKey}
            /\ \A k \in DOMAIN enabled_tasks : cache'[k] = enabled_tasks[k]]_vars
    /\ [][cache' # cache => UpdateSchedule]_vars

\* a refresh made after a change has completed over a store that holds a
\* disabled row: the cache has the default entry and no entry for that row
C8_Witness ==
    /\ pc = "idle" /\ decision = "changed" /\ ~dirty
    /\ \E r \in rows : ~r.enabled /\ ~Malformed(r) /\ r.task_key \notin DOMAIN cache
    /\ DefaultKey \in DOMAIN cache

\* the batches a bulk insert is given: by a caller, or by the seeding
BulkInputs == Batches \cup {BeatDbEntries(b) : b \in BeatSchedules}

\* C9: a bulk insert, the seeding included, leaves every stored row as it is,
\* rows edited or disabled through the ORM included, adds only entries of the
\* batch whose key was not stored, reports as many inserted rows as it added,
\* stores every key of the batch unless it raised, and a second run of the
\* same batch inserts 0 rows and changes nothing.
C9_BulkInsertKeepsExisting ==
    [][\A data \in BulkInputs : BulkInsert(data) =>
          /\ rows \subseteq rows'
          /\ \A r \in rows' \ rows :
                r.task_key \notin KeysOf(rows) /\ r \in SeqToSet(data)
          /\ lastOp'.inserted = Cardinality(rows' \ rows)
          /\ ~lastOp'.raised => \A i \in 1..Len(data) : data[i].task_key \in KeysOf(rows')
          /\ ScheduleBulkInsert(rows', catalog', data).inserted = 0
          /\ ScheduleBulkInsert(rows', catalog', data).rows = rows']_vars

\* the second bulk insert added one row to a store of two, and the store keeps
\* a row that differs from the batch entry of the same key
C9_Witness ==
    /\ lastOp = Outcome("bulk_insert", FALSE, 1)
    /\ writes = 2 /\ txn = NoTxn
    /\ Cardinality(rows) = 3
    /\ \E r \in rows, d \in BulkData : r.task_key = d.task_key /\ r # d

\* C10: when two entries of a batch have the same key, the key is not stored
\* and every task of the batch is in celery_tasks, the bulk insert does not
\* fail, stores exactly one row for the key, and stores the other new keys of
\* the batch.
C10_DuplicateInBatchDropped ==
    [][\A data \in BulkInputs :
          (/\ BulkInsert(data)
           /\ ForeignKeyOk(catalog, data)
           /\ \E i, j \in 1..Len(data) :
                 i < j /\ data[i].task_key = data[j].task_key
                       /\ data[i].task_key \notin KeysOf(rows))
          => /\ ~lastOp'.raised
             /\ \A i \in 1..Len(data) :
                   Cardinality({r \in rows' : r.task_key = data[i].task_key}) = 1]_vars


\* the entries of a batch that bulk_insert passes to its INSERT
Missing(data, stored) == {i \in 1..Len(data) : data[i].task_key \notin stored}

\* a row of the call fails: two of the rows to insert share the unique key,
\* or one names a task the catalog does not hold
SomeRowFails(data) ==
    \/ \E i, j \in Missing(data, KeysOf(rows)) : i # j /\ data[i].task_key = data[j].task_key
    \/ \E i \in Missing(data, KeysOf(rows)) : \A c \in catalog : c.task # data[i].task

\* two of the catalog entries to insert share the primary key
SomeTaskFails(data) ==
    \E i, j \in 1..Len(data) :
        /\ i # j
        /\ data[i].task = data[j].task
        /\ \A c \in catalog : c.task # data[i].task

\* C11: a multi-row store write is all-or-nothing. A bulk insert in which a
\* row fails on the unique key or the foreign key raises and leaves both
\* tables as they were; one in which no row fails stores every entry whose
\* key (task) was missing. A bulk update applies every entry of the call, and
\* a delete removes every row of the tasks named and no other row.
C11_AllOrNothing ==
    [][/\ \A data \in Batches : BulkInsert(data) =>
            /\ lastOp'.raised <=> SomeRowFails(data)
            /\ lastOp'.raised => (rows' = rows /\ catalog' = catalog)
            /\ ~lastOp'.raised =>
                  rows' = rows \cup {data[i] : i \in Missing(data, KeysOf(rows))}
       /\ \A data \in CatalogBatches : CatalogInsert(data) =>
            /\ lastOp'.raised <=> SomeTaskFails(data)
            /\ lastOp'.raised => (rows' = rows /\ catalog' = catalog)
            /\ ~lastOp'.raised =>
                  catalog' = catalog \cup
                      {data[i] : i \in {j \in 1..Len(data) :
                                           \A c \in catalog : c.task # data[j].task}}
       /\ \A data \in CatalogBatches : CatalogUpdate(data) =>
            /\ ~lastOp'.raised
            /\ rows' = rows
            /\ {c.task : c \in catalog'} = {c.task : c \in catalog}
            /\ \A c \in catalog' : \A i \in 1..Len(data) :
                  (data[i].task = c.task /\ \A j \in (i + 1)..Len(data) : data[j].task # c.task)
                      => (c.params = data[i].params /\ c.description = data[i].description)
       /\ ScheduleDeleteCall =>
            \E tasks \in DeleteInputs :
                /\ rows' = {r \in rows : r.task \notin tasks}
                /\ catalog' = catalog
       /\ TasksDeleteCall =>
            \E tasks \in DeleteInputs :
                /\ catalog' = {c \in catalog : c.task \notin tasks}
                /\ rows' = {r \in rows : r.task \notin tasks}]_vars

\* a bulk insert with a failing row was made on a store that holds rows, and
\* the rows are still there
C11_Witness ==
    /\ lastOp.op = "bulk_insert"
    /\ lastOp.raised
    /\ rows # {}
    /\ writes = MaxWrites

\* the (args, kwargs) texts that bind to the signature of a registered task
\* (one optional parameter n)
SignatureTexts ==
    { <<NoArgs, NoKwargs>>, <<OneArg, NoKwargs>>, <<NoArgs, OneKwarg>> }

\* a row that write-time validation accepts: a live task, JSON arguments that
\* match its signature, a five-field crontab
Acceptable(r) ==
    /\ r.task \in {T1, T2}
    /\ r.args \in ValidJsonTexts
    /\ r.kwargs \in ValidJsonTexts
    /\ <<r.args, r.kwargs>> \in SignatureTexts
    /\ r.schedule \in ValidCronTexts

\* C12: no sequence of store writes, through any write path, leaves in the
\* store a row that names a task absent from the live registry, or whose args
\* or kwargs are not valid JSON matching the task's signature, or whose
\* schedule is not a valid five-field crontab.
C12_NoInvalidRowStored == \A r \in rows : Acceptable(r)

\* C13: after a refresh started by a tick, no enabled row that names a task
\* absent from the live task registry has an entry in the cache.
C13_UnknownTaskSkipped ==
    (pc = "idle" /\ last # None /\ ~dirty /\ decision \in Refreshing)
        => \A r \in rows : (r.enabled /\ r.task \notin {T1, T2}) => r.task_key \notin DOMAIN cache

\* C14: the delete of _clean_deprecated leaves in the catalog exactly the rows
\* of the live tasks, each as it was, and in the schedule table exactly the
\* rows that reference a live task; when it finds nothing to delete the
\* catalog holds live tasks only; and the refresh that follows caches no entry
\* of a task that is not live.
C14_CleanDeprecatedCascades ==
    /\ [][CleanDelete =>
            /\ catalog' = {c \in catalog : c.task \in {T1, T2}}
            /\ rows' = {r \in rows : r.task \in {T1, T2}}
            /\ \A r \in SelectEnabledEntries(rows') :
                  \E c \in catalog' : c.task = r.task]_vars
    /\ [][(CleanRead /\ pc' = "fill_insert") => \A c \in catalog' : c.task \in {T1, T2}]_vars
    /\ [][UpdateSchedule =>
            \A k \in DOMAIN cache' : cache'[k].task \in {T1, T2, DefaultKey}]_vars

\* _clean_deprecated has deleted the catalog row of the task that is no longer
\* registered and its schedule row has gone with it; rows of live tasks stay
C14_Witness ==
    /\ pc = "fill_insert"
    /\ writes = 0
    /\ dirty
    /\ rows # {}
    /\ \E c \in catalog : c.task = T1

\* C15, as stated: _prepare_models calls create_all at most 10 times.
C15_AtMostTenAttempts == attempts <= 10

\* C15, amended: _prepare_models calls create_all at most 11 times, the first
\* attempt and up to 10 retries; it makes no further attempt after one has
\* succeeded; it gives up only when the 11th attempt fails, and then the
\* change-clock row is left as it was (absent on a new store); after a
\* success the change-clock row is initialised before the next step.
C15_RetryBounded ==
    /\ [](attempts <= 11)
    /\ [][attempts' # attempts => (pc = "prepare" /\ attempts' = attempts + 1)]_vars
    /\ [][CreateAllSucceeds => pc' = "init_clock"]_vars
    /\ [][(pc = "prepare" /\ pc' = "aborted") =>
            (attempts' = 11 /\ retries = 10 /\ clock' = clock)]_vars
    /\ [][CreateAllFails => (clock' = clock /\ (attempts' < 11 => pc' = "prepare"))]_vars
    /\ [](pc \in {"clean", "clean_delete", "fill_insert", "fill_update", "seed",
                  "update", "loaded", "idle"} => clock # None)
    /\ [](clock = None => pc \in {"prepare", "init_clock", "aborted"})

\* every attempt on a new store has failed: the start-up is aborted after the
\* 11th and the change-clock row does not exist
C15_Witness ==
    /\ pc = "aborted"
    /\ attempts = 11
    /\ retries = 10
    /\ clock = None

\* the text of one item of args or kwargs, as Python prints it
ItemText(v) ==
    IF v[1] = "bool" THEN (IF v[2] THEN <<"T", "r", "u", "e">> ELSE <<"F", "a", "l", "s", "e">>)
    ELSE IF v[1] = "str" THEN v[2]
    ELSE IF v[2] < 10 THEN <<Digits[v[2] + 1]>>
    ELSE <<Digits[(v[2] \div 10) + 1], Digits[(v[2] % 10) + 1]>>

RECURSIVE Dashed(_)
\* texts joined by "-"
Dashed(texts) ==
    IF Len(texts) = 0 THEN <<>>
    ELSE IF Len(texts) = 1 THEN texts[1]
    ELSE Dashed(SubSeq(texts, 1, Len(texts) - 1)) \o <<"-">> \o texts[Len(texts)]

\* text without its leading and trailing dashes
Undashed(text) ==
    LET keep == {i \in 1..Len(text) : text[i] # "-"}
    IN  IF keep = {} THEN <<>>
        ELSE SubSeq(text, CHOOSE i \in keep : \A j \in keep : i <= j,
                          CHOOSE i \in keep : \A j \in keep : i >= j)

\* the key of the call under way, as the contract words it: task, the args
\* and the kwargs items joined by "-", the ends stripped of "-", every
\* bracket, brace, parenthesis, comma, quote and space then removed
ContractKey ==
    LET args == Dashed([i \in 1..Len(call.args) |-> ItemText(call.args[i])])
        kwargs == Dashed([i \in 1..Len(call.kwargs) |->
                            Dashed(<<call.kwargs[i][1], ItemText(call.kwargs[i][2])>>)])
        joined == Undashed(Dashed(<<call.name, args, kwargs>>))
    IN  SelectSeq(joined, LAMBDA c : c \notin {"[", "]", "{", "}", "(", ")", ",", "'", "\"", " "})

BackendCleanup ==
    [args |-> <<>>, kwargs |-> <<>>,
     schedule |-> [minute |-> <<"0">>, hour |-> <<"4">>, day_of_week |-> <<"*">>,
                   day_of_month |-> <<"*">>, month_of_year |-> <<"*">>],
     task |-> DefaultKey]

CatalogRowOf(cat, task) == CHOOSE c \in cat : c.task = task

\* C18: a catalog scan never changes tags. bulk_insert leaves every stored
\* row as it is; bulk_update keeps the set of tasks and every row's tags,
\* changes nothing but params and description, and leaves untouched a row
\* whose params and description equal those of every entry given for its task.
C18_FillKeepsTags ==
    [][/\ \A data \in CatalogBatches : CatalogInsert(data) => catalog \subseteq catalog'
       /\ \A data \in CatalogBatches : CatalogUpdate(data) =>
            /\ {c.task : c \in catalog'} = {c.task : c \in catalog}
            /\ Cardinality(catalog') = Cardinality(catalog)
            /\ \A c \in catalog :
                  /\ CatalogRowOf(catalog', c.task).tags = c.tags
                  /\ (\A i \in 1..Len(data) :
                         data[i].task = c.task =>
                            (data[i].params = c.params /\ data[i].description = c.description))
                     => c \in catalog']_vars

\* the admin has set the tags of t1 and a later bulk_update has replaced its
\* params from an entry carrying other tags: the admin's tags are still there
C18_Witness ==
    /\ lastOp.op = "tasks_bulk_update"
    /\ \E c \in catalog : c.task = T1 /\ c.params = <<"m">> /\ c.tags = <<"u">>

\* the value a stored args or kwargs text decodes to
Decoded(text) ==
    CASE text = <<"[", "]">> -> <<>>
      [] text = <<"[", "1", "]">> -> << <<"int", 1>> >>
      [] text = <<"[", "1", ",", " ", "2", "]">> -> << <<"int", 1>>, <<"int", 2>> >>
      [] text = <<"{", "}">> -> <<>>
      [] text = <<"{", "\"", "n", "\"", ":", " ", "1", "}">> -> << << <<"n">>, <<"int", 1>> >> >>

\* C19: after any sequence of validated inserts, validated updates and
\* seedings every stored row's task_key is get_task_key of its task and its
\* decoded args and kwargs, and no two rows share a key; an update whose new
\* key is the key of another row is never staged.
C19_StoredKey ==
    /\ [](\A r \in rows :
            /\ r.args \in ValidJsonTexts
            /\ r.kwargs \in ValidJsonTexts
            /\ r.task_key = get_task_key(r.task, Decoded(r.args), Decoded(r.kwargs)))
    /\ [](\A r, s \in rows : r.task_key = s.task_key => r = s)
    /\ [][\A r \in rows :
            (txn = NoTxn /\ txn' # NoTxn /\ txn'.op = "update" /\ txn'.del = {r})
                => \A t \in txn'.add :
                      /\ t.task_key = get_task_key(t.task, Decoded(t.args), Decoded(t.kwargs))
                      /\ t.task_key \notin KeysOf(rows \ {r})]_vars

\* an update that changed the args of a row of t1 has been committed with the
\* key recomputed
C19_Witness ==
    /\ txn = NoTxn
    /\ \E r \in rows :
          /\ r.task = T1
          /\ r.args = <<"[", "1", "]">>
          /\ r.task_key = <<"t", "1", "-", "1">>
    /\ \E r, s \in rows :
          /\ r # s
          /\ s.task_key = get_task_key(r.task, Decoded(<<"[", "1", "]">>), Decoded(r.kwargs))

\* C20: when the read of the change clock or the listing of the enabled rows
\* raises during a tick, the error reaches the caller with the in-memory map
\* and last_refreshed_at as they were before the tick and with nothing of the
\* failed load kept, and the caller's next tick starts from that same state.
C20_FailedRefreshChangesNothing ==
    /\ [][(pc \in {"update", "raised"} \/ pc' \in {"update", "raised"})
            => (cache' = cache /\ last' = last)]_vars
    /\ [][(pc # "raised" /\ pc' = "raised")
            => (pc \in {"idle", "update"} /\ enabled_tasks' = enabled_tasks)]_vars
    /\ [](pc = "raised" => enabled_tasks = EmptyMap)
    /\ [][(pc = "raised" /\ pc' # "raised") => pc' = "idle"]_vars

\* the listing of the enabled rows has failed in a tick that found the store
\* changed, with entries of an earlier load in the map
C20_Witness ==
    /\ pc = "raised"
    /\ decision = "changed"
    /\ last # None
    /\ \E k \in DOMAIN cache : k # DefaultKey

\* C21: when setup_schedule has returned (its refresh done, no row committed
\* since the rows were read), last_refreshed_at is set and the map holds an
\* entry for every enabled row of the store, the seeded rows among them.
C21_SetupLoadsEveryEnabledRow ==
    (pc = "idle" /\ decision = "setup" /\ ~dirty)
        => /\ last # None
           /\ \A r \in rows :
                 r.enabled => /\ r.task_key \in DOMAIN cache
                              /\ Reflects(cache[r.task_key], r)

\* the crontab token that denotes what a static entry's field denotes
SameField(orig, token) ==
    CASE orig[1] = "str"  -> token = orig[2]
      [] orig[1] = "int"  -> token = NatStr(orig[2])
      [] orig[1] = "list" -> token = Join(<<",">>, [i \in 1..Len(orig[2]) |-> NatStr(orig[2][i])])

\* what a reload of the store makes of the static entry `task`, if anything
RoundTrip(store, task) ==
    LET key == get_task_key(task.task, task.args, task.kwargs)
        loaded == GetEnabledTasks(store)
    IN  /\ key \in DOMAIN loaded
        /\ loaded[key].task = task.task
        /\ loaded[key].args = task.args
        /\ loaded[key].kwargs = task.kwargs
        /\ SameField(task.schedule._orig_minute, loaded[key].schedule.minute)
        /\ SameField(task.schedule._orig_hour, loaded[key].schedule.hour)
        /\ SameField(task.schedule._orig_day_of_month, loaded[key].schedule.day_of_month)
        /\ SameField(task.schedule._orig_month_of_year, loaded[key].schedule.month_of_year)
        /\ SameField(task.schedule._orig_day_of_week, loaded[key].schedule.day_of_week)

\* C22: every static schedule entry that the seeding has written to the store
\* is read back by a reload as an entry under the same key with the same
\* task, args and kwargs and the same five crontab fields in their positions.
C22_SeedReloadRoundTrip ==
    [][\A beat_schedule \in BeatSchedules :
          (/\ pc = "seed"
           /\ pc' = "update"
           /\ rows' = ScheduleBulkInsert(rows, catalog, BeatDbEntries(beat_schedule)).rows)
              => \A i \in 1..Len(beat_schedule) :
                    BeatDbEntries(beat_schedule)[i] \in rows' \ rows
                        => RoundTrip(rows', beat_schedule[i])]_vars

=============================================================================
